---- MODULE Spec2Model ----
(***************************************************************************)
(* A model of hac-core's text buffer (text_object.rs): a ropey Rope of     *)
(* unicode scalars with a line-break policy, addressed by an external      *)
(* cursor (row, col).  Scalars are one-character strings; the Rope is a    *)
(* sequence of scalars; a &str is the sequence of its UTF-8 bytes.         *)
(* Offsets and rows are 0-based as in the source; sequences are 1-based,   *)
(* so the scalar at offset i of content c is c[i + 1].                     *)
(***************************************************************************)
EXTENDS Integers, Sequences, FiniteSets, TLC

VARIABLES
    content,     \* TextObject.content: the Rope, a sequence of scalars
    line_break,  \* TextObject.line_break: "Lf" or "Crlf"
    state,       \* the PhantomData capability tag: "Readonly" or "Write"
    cursor,      \* the caller's Cursor, <<row, col>>
    op,          \* the last call made on the buffer
    arg,         \* the arguments of that call other than the cursor
    ret,         \* the value that call returned (a tuple; <<>> for none)
    panicked     \* TRUE once a call has panicked (the thread unwinds)

vars == <<content, line_break, state, cursor, op, arg, ret, panicked>>

----------------------------------------------------------------------------
(* Bounds *)

\* longest content the exhaustive inputs and the insertions build
MaxLen == 2
\* largest cursor row the caller tries
MaxRow == 2
\* largest cursor column the caller tries
MaxCol == 3
\* the indentation levels Highlighter::find_indentation_level reports
Levels == {0, 1}

----------------------------------------------------------------------------
(* Scalars and their UTF-8 encoding *)

\* the scalars the caller types and the exhaustive inputs are made of
Alphabet == {"a", " ", "\n", "\r", "(", ")"}

\* further scalars that occur in the hand-picked inputs
Scalars == Alphabet \cup {"é", ",", "[", "]", "\t"}

Utf8(c) ==
    CASE c = "a"  -> <<97>>
      [] c = " "  -> <<32>>
      [] c = "\n" -> <<10>>
      [] c = "\r" -> <<13>>
      [] c = "\t" -> <<9>>
      [] c = "("  -> <<40>>
      [] c = ")"  -> <<41>>
      [] c = ","  -> <<44>>
      [] c = "["  -> <<91>>
      [] c = "]"  -> <<93>>
      [] c = "é"  -> <<195, 169>>

RECURSIVE to_string(_)
\* Rope::to_string: the UTF-8 bytes of the scalars, in order
to_string(c) ==
    IF c = <<>> THEN <<>> ELSE Utf8(Head(c)) \o to_string(Tail(c))

RECURSIVE from_str(_)
\* Rope::from_str: the scalars of a valid UTF-8 byte sequence
from_str(s) ==
    IF s = <<>> THEN <<>>
    ELSE LET n == IF Head(s) < 128 THEN 1 ELSE 2
             c == CHOOSE x \in Scalars : Utf8(x) = SubSeq(s, 1, n)
         IN  <<c>> \o from_str(SubSeq(s, n + 1, Len(s)))

----------------------------------------------------------------------------
(* character.rs *)

\* char::is_alphanumeric
char_is_alphanumeric(c) == c \in {"a", "é"}

\* char::is_whitespace
char_is_whitespace(c) == c \in {" ", "\t", "\n", "\r"}

\* character::kind
kind(c, bigword) ==
    IF char_is_alphanumeric(c) THEN "Word"
    ELSE IF char_is_whitespace(c) THEN "Whitespace"
    ELSE IF bigword THEN "Word"
    ELSE "Punctuation"

is_opening_token(c) == c \in {"(", "{", "[", "<"}

is_closing_token(c) == c \in {")", "}", "]", ">"}

----------------------------------------------------------------------------
(* line_break.rs *)

\* impl Display for LineBreak
LineBreakStr(lb) == IF lb = "Lf" THEN <<"\n">> ELSE <<"\r", "\n">>

\* impl From<LineBreak> for usize
LineBreakLen(lb) == IF lb = "Lf" THEN 1 ELSE 2

----------------------------------------------------------------------------
(* The Rope operations the buffer calls (ropey, default features: LF, CR  *)
(* and CRLF each end a line).  PANIC is the outcome of a call that panics. *)

PANIC == -1

\* the same outcome where the value is a tuple (a position, a char range)
PANICKED == <<"panic">>

len_chars(c) == Len(c)

\* a line break ends with the scalar at sequence index i
IsBreakEnd(c, i) ==
    \/ c[i] = "\n"
    \/ c[i] = "\r" /\ ~(i < Len(c) /\ c[i + 1] = "\n")

BreakEnds(c) == {i \in 1..Len(c) : IsBreakEnd(c, i)}

\* len_lines, were it to count the terminators instead of the lines
len_lines_terminators(c) == Cardinality(BreakEnds(c))

\* Rope::len_lines, TextObject::len_lines
len_lines(c) == Cardinality(BreakEnds(c)) + 1

\* Rope::line_to_char: panics when line_idx > len_lines
line_to_char(c, k) ==
    IF k > len_lines(c) THEN PANIC
    ELSE IF k = 0 THEN 0
    ELSE IF k = len_lines(c) THEN Len(c)
    ELSE CHOOSE e \in BreakEnds(c) :
             Cardinality({x \in BreakEnds(c) : x <= e}) = k

\* Rope::char_to_line: panics when char_idx > len_chars
char_to_line(c, i) ==
    IF i > Len(c) THEN PANIC
    ELSE Cardinality({x \in BreakEnds(c) : x <= i})

\* Rope::get_char: "None" past the end
get_char(c, i) == IF i < Len(c) THEN c[i + 1] ELSE "None"

\* Rope::get_line answers None
NoLine == <<"None">>

\* Rope::get_line / Rope::line: None when line_idx >= len_lines
get_line(c, k) ==
    IF k >= len_lines(c) THEN NoLine
    ELSE SubSeq(c, line_to_char(c, k) + 1, line_to_char(c, k + 1))

\* Rope::insert / Rope::insert_char at a valid offset
InsertAt(c, i, text) == SubSeq(c, 1, i) \o text \o SubSeq(c, i + 1, Len(c))

\* Rope::try_remove(s..e) is Ok
RangeOk(c, s, e) == s <= e /\ e <= Len(c)

\* Rope::try_remove(s..e).ok(): the content is left alone on Err
try_remove(c, s, e) ==
    IF RangeOk(c, s, e) THEN SubSeq(c, 1, s) \o SubSeq(c, e + 1, Len(c))
    ELSE c

saturating_sub(a, b) == IF a >= b THEN a - b ELSE 0

\* does pat occur in s
Contains(s, pat) ==
    \E i \in 0..(Len(s) - Len(pat)) : SubSeq(s, i + 1, i + Len(pat)) = pat

----------------------------------------------------------------------------
(* Outcomes of a call: the content after it, the value returned, and      *)
(* whether it panicked (a panicking call leaves the content as it was).   *)

Ok(c, r) == [panic |-> FALSE, content |-> c, ret |-> r]

Panic(c) == [panic |-> TRUE, content |-> c, ret |-> <<>>]

----------------------------------------------------------------------------
(* Construction *)

\* TextObject::from: line_break detection on line 0
DetectLineBreak(c) ==
    IF Contains(get_line(c, 0), <<"\r", "\n">>) THEN "Crlf" ELSE "Lf"

\* from, were it to normalise CRLF to LF while loading
from_normalising(s) ==
    LET c == SelectSeq(from_str(s), LAMBDA x : x # "\r")
    IN  [content |-> c, line_break |-> DetectLineBreak(c)]

\* TextObject::<Readonly>::from
from(s) ==
    LET c == from_str(s)
    IN  [content |-> c, line_break |-> DetectLineBreak(c)]

\* impl Display for TextObject
render(c) == to_string(c)

----------------------------------------------------------------------------
(* Line queries *)

\* TextObject::line_len_with_linebreak: str::len of the line, in bytes
\* (Rope::line panics past the last line; as_str is Some for a line that
\* lies in one chunk, which every content of this size does)
line_len_with_linebreak(c, line) ==
    IF line >= len_lines(c) THEN PANIC
    ELSE Len(to_string(get_line(c, line)))

\* TextObject::line_len
line_len(c, lb, line) ==
    IF line >= len_lines(c) THEN PANIC
    ELSE saturating_sub(Len(to_string(get_line(c, line))), LineBreakLen(lb))

----------------------------------------------------------------------------
(* Offsets *)

\* TextObject::to_offset
to_offset(c, col, row) ==
    LET line == line_to_char(c, row)
    IN  IF line = PANIC THEN PANIC ELSE line + col

\* TextObject::col_row_from_offset: <<col, row>>, or PANICKED
col_row_from_offset(c, idx) ==
    LET row == char_to_line(c, idx)
    IN  IF row = PANIC THEN PANICKED
        ELSE <<idx - line_to_char(c, row), row>>

\* a motion's return: the position of idx, or the panic on the way to it
PosResult(c, idx) ==
    IF idx = PANIC THEN Panic(c)
    ELSE IF col_row_from_offset(c, idx) = PANICKED THEN Panic(c)
    ELSE Ok(c, col_row_from_offset(c, idx))

----------------------------------------------------------------------------
(* Edits *)

\* TextObject::insert_char
insert_char(c, ch, row, col) ==
    LET col_offset == to_offset(c, col, row)
    IN  IF col_offset = PANIC \/ col_offset > Len(c) THEN Panic(c)
        ELSE Ok(InsertAt(c, col_offset, <<ch>>), <<>>)

\* insert_newline, were it to insert "\n" whatever the policy
insert_newline_lf(c, lb, row, col) ==
    LET col_offset == to_offset(c, col, row)
    IN  IF col_offset = PANIC \/ col_offset > Len(c) THEN Panic(c)
        ELSE Ok(InsertAt(c, col_offset, <<"\n">>), <<>>)

\* TextObject::insert_newline
insert_newline(c, lb, row, col) ==
    LET col_offset == to_offset(c, col, row)
    IN  IF col_offset = PANIC \/ col_offset > Len(c) THEN Panic(c)
        ELSE Ok(InsertAt(c, col_offset, LineBreakStr(lb)), <<>>)

\* the char range erase_previous_char hands to try_remove, or PANICKED
erase_previous_char_range(c, row, col) ==
    LET col_offset == to_offset(c, col, row)
    IN  IF col_offset = PANIC THEN PANICKED
        ELSE <<saturating_sub(col_offset, 1), col_offset>>

\* a removal: the range is computed, then try_remove(range).ok()
Remove(c, range) ==
    IF range = PANICKED THEN Panic(c)
    ELSE Ok(try_remove(c, range[1], range[2]), <<>>)

\* TextObject::erase_previous_char
erase_previous_char(c, row, col) ==
    Remove(c, erase_previous_char_range(c, row, col))

\* erase_backwards_up_to_line_start, were it not to return at column 0
erase_backwards_over_line_start(c, row, col) ==
    Remove(c, erase_previous_char_range(c, row, col))

\* TextObject::erase_backwards_up_to_line_start
erase_backwards_up_to_line_start(c, row, col) ==
    IF col = 0 THEN Ok(c, <<>>)
    ELSE Remove(c, erase_previous_char_range(c, row, col))

\* the char range erase_current_char hands to try_remove, or PANICKED
erase_current_char_range(c, row, col) ==
    LET col_offset == to_offset(c, col, row)
    IN  IF col_offset = PANIC THEN PANICKED
        ELSE <<col_offset, col_offset + 1>>

\* TextObject::erase_current_char
erase_current_char(c, row, col) ==
    Remove(c, erase_current_char_range(c, row, col))

\* the char range erase_until_eol hands to try_remove, or PANICKED
erase_until_eol_range(c, row, col) ==
    LET line == line_to_char(c, row)
        next_line == line_to_char(c, row + 1)
    IN  IF line = PANIC \/ next_line = PANIC THEN PANICKED
        ELSE <<line + col, saturating_sub(next_line, 1)>>

\* TextObject::erase_until_eol
erase_until_eol(c, row, col) ==
    Remove(c, erase_until_eol_range(c, row, col))

\* the char range delete_line hands to try_remove, or PANICKED
delete_line_range(c, line) ==
    LET start == line_to_char(c, line)
        end == line_to_char(c, line + 1)
    IN  IF start = PANIC \/ end = PANIC THEN PANICKED ELSE <<start, end>>

\* TextObject::delete_line
delete_line(c, line) == Remove(c, delete_line_range(c, line))

\* the for loop of delete_word over chars_at(start_idx): the final end_idx
RECURSIVE DeleteWordLoop(_, _, _, _, _)
DeleteWordLoop(c, lb, initial_char, i, end_idx) ==
    IF i >= Len(c) THEN end_idx
    ELSE LET char == c[i + 1]
         IN  IF ~char_is_alphanumeric(initial_char)
                /\ Contains(LineBreakStr(lb), <<char>>)
             THEN end_idx
             ELSE IF char_is_alphanumeric(initial_char) # char_is_alphanumeric(char)
             THEN end_idx + 1
             ELSE DeleteWordLoop(c, lb, initial_char, i + 1, end_idx + 1)

\* the char range delete_word hands to try_remove; PANICKED when the row
\* has no line_to_char, <<>> when there is no scalar at the offset
delete_word_range(c, lb, row, col) ==
    LET start_idx == to_offset(c, col, row)
    IN  IF start_idx = PANIC THEN PANICKED
        ELSE IF get_char(c, start_idx) = "None" THEN <<>>
        ELSE <<start_idx,
               DeleteWordLoop(c, lb, get_char(c, start_idx), start_idx,
                              saturating_sub(start_idx, 1))>>

\* TextObject::delete_word
delete_word(c, lb, row, col) ==
    LET range == delete_word_range(c, lb, row, col)
    IN  IF range = <<>> THEN Ok(c, <<>>) ELSE Remove(c, range)

\* the for loop of delete_word_backwards, n iterations left: the final end_idx
RECURSIVE DeleteWordBackwardsLoop(_, _, _, _, _)
DeleteWordBackwardsLoop(c, lb, initial_char, n, end_idx) ==
    IF n = 0 THEN end_idx
    ELSE LET char == c[end_idx + 1]
         IN  IF ~char_is_alphanumeric(initial_char)
                /\ Contains(LineBreakStr(lb), <<char>>)
             THEN end_idx
             ELSE IF char_is_alphanumeric(initial_char) # char_is_alphanumeric(char)
             THEN end_idx
             ELSE DeleteWordBackwardsLoop(c, lb, initial_char, n - 1,
                                          saturating_sub(end_idx, 1))

\* end_idx of delete_word_backwards when the scan is over
DeleteWordBackwardsEnd(c, lb, start_idx) ==
    IF get_char(c, saturating_sub(start_idx, 1)) = "None"
    THEN saturating_sub(start_idx, 1)
    ELSE DeleteWordBackwardsLoop(c, lb,
             get_char(c, saturating_sub(start_idx, 1)),
             saturating_sub(start_idx, 1), saturating_sub(start_idx, 1))

\* the char range delete_word_backwards hands to try_remove, or PANICKED
delete_word_backwards_range(c, lb, row, col) ==
    LET start_idx == to_offset(c, col, row)
    IN  IF start_idx = PANIC THEN PANICKED
        ELSE <<DeleteWordBackwardsEnd(c, lb, start_idx) + 1, start_idx>>

\* TextObject::delete_word_backwards. start_idx.sub(end_idx.add(1)) is
\* below zero exactly when start_idx = 0: with overflow checks (a debug
\* build) the call panics, without them (a release build) the usize wraps
\* and the call returns 2^64 - 1, written here as the integer -1 it is
\* congruent to.
delete_word_backwards(c, lb, row, col, overflow_checks) ==
    LET range == delete_word_backwards_range(c, lb, row, col)
    IN  IF range = PANICKED THEN Panic(c)
        ELSE IF range[2] < range[1] /\ overflow_checks THEN Panic(c)
        ELSE Ok(try_remove(c, range[1], range[2]), <<range[2] - range[1]>>)

\* Option<&Tree>: <<>> is None, and a tree is known here only by the level
\* Highlighter::find_indentation_level reports for it
Trees == {<<>>} \cup {<<level>> : level \in Levels}

\* TextObject::get_scope_aware_indentation: the indentation, or PANICKED
\* (line_to_byte panics as line_to_char does)
get_scope_aware_indentation(c, row, tree) ==
    IF tree = <<>> THEN <<>>
    ELSE IF line_to_char(c, row) = PANIC THEN PANICKED
    ELSE [i \in 1..(2 * tree[1]) |-> " "]

\* TextObject::insert_line_below
insert_line_below(c, lb, row, tree) ==
    LET indentation == get_scope_aware_indentation(c, row, tree)
        next_line == line_to_char(c, row + 1)
    IN  IF indentation = PANICKED \/ next_line = PANIC THEN Panic(c)
        ELSE Ok(InsertAt(c, next_line, indentation \o LineBreakStr(lb)), <<>>)

\* TextObject::insert_line_above
insert_line_above(c, lb, row, tree) ==
    LET indentation == get_scope_aware_indentation(c, row, tree)
        curr_line == line_to_char(c, row)
    IN  IF indentation = PANICKED \/ curr_line = PANIC THEN Panic(c)
        ELSE Ok(InsertAt(c, curr_line, indentation \o LineBreakStr(lb)), <<>>)

----------------------------------------------------------------------------
(* Motions *)

\* TextObject::is_whitespace, of an Option<char>
is_whitespace(c) ==
    IF c = "None" THEN FALSE ELSE kind(c, FALSE) = "Whitespace"

\* TextObject::get_char_kind, of an Option<char>
get_char_kind(c, bigword) ==
    IF c = "None" THEN "Unknown" ELSE kind(c, bigword)

\* the for loop of find_char_before_whitespace, n iterations left: the
\* final index, or PANIC when Rope::char is asked for a scalar past the end
RECURSIVE FindCharBeforeWhitespaceLoop(_, _, _, _)
FindCharBeforeWhitespaceLoop(c, n, index, found) ==
    IF n = 0 THEN index
    ELSE IF index >= Len(c) THEN PANIC
    ELSE LET char == c[index + 1]
         IN  IF char_is_whitespace(char) /\ ~found
             THEN FindCharBeforeWhitespaceLoop(c, n - 1,
                      saturating_sub(index, 1), TRUE)
             ELSE IF ~char_is_whitespace(char) /\ found THEN index
             ELSE FindCharBeforeWhitespaceLoop(c, n - 1,
                      saturating_sub(index, 1), found)

\* TextObject::find_char_before_whitespace
find_char_before_whitespace(c, row, col) ==
    LET col_offset == to_offset(c, col, row)
    IN  IF col_offset = PANIC THEN Panic(c)
        ELSE PosResult(c,
                 FindCharBeforeWhitespaceLoop(c, saturating_sub(col_offset, 1),
                     saturating_sub(col_offset, 1), FALSE))

\* find_next_word, first while loop: past the run of initial_char_kind
RECURSIVE NextWordRun(_, _, _, _)
NextWordRun(c, end_idx, initial_char_kind, bigword) ==
    IF end_idx < Len(c)
       /\ get_char_kind(get_char(c, end_idx), bigword) = initial_char_kind
    THEN NextWordRun(c, end_idx + 1, initial_char_kind, bigword)
    ELSE end_idx

\* the second while loop, were it an if: one whitespace scalar is skipped
NextWordSkip_once(c, end_idx, found_newline) ==
    IF end_idx < Len(c) /\ is_whitespace(get_char(c, end_idx))
    THEN end_idx + 1
    ELSE end_idx

\* find_next_word, second while loop: past the whitespace, up to the
\* second "\n"
RECURSIVE NextWordSkip(_, _, _)
NextWordSkip(c, end_idx, found_newline) ==
    IF end_idx < Len(c) /\ is_whitespace(get_char(c, end_idx))
    THEN IF get_char(c, end_idx) = "\n"
         THEN IF found_newline THEN end_idx
              ELSE NextWordSkip(c, end_idx + 1, TRUE)
         ELSE NextWordSkip(c, end_idx + 1, found_newline)
    ELSE end_idx

\* the landing offset, were the skip to halt at the first "\n" it meets
\* (found_newline set from the start)
NextWordEnd_first_newline(c, start_idx, bigword) ==
    IF start_idx > Len(c) THEN start_idx
    ELSE LET after_word ==
                 IF ~is_whitespace(get_char(c, start_idx))
                 THEN NextWordRun(c, start_idx,
                          get_char_kind(get_char(c, start_idx), bigword),
                          bigword)
                 ELSE start_idx
         IN  NextWordSkip(c, after_word, TRUE)

\* the offset find_next_word lands on (count is 1)
NextWordEnd(c, start_idx, bigword) ==
    IF start_idx > Len(c) THEN start_idx
    ELSE LET after_word ==
                 IF ~is_whitespace(get_char(c, start_idx))
                 THEN NextWordRun(c, start_idx,
                          get_char_kind(get_char(c, start_idx), bigword),
                          bigword)
                 ELSE start_idx
         IN  NextWordSkip(c, after_word, FALSE)

\* TextObject::find_next_word
find_next_word(c, row, col, bigword) ==
    LET start_idx == to_offset(c, col, row)
    IN  IF start_idx = PANIC THEN Panic(c)
        ELSE PosResult(c, NextWordEnd(c, start_idx, bigword))

\* find_prev_word, first while loop: <<end_idx, returned early>>
RECURSIVE PrevWordSkip(_, _, _)
PrevWordSkip(c, end_idx, found_newline) ==
    IF end_idx > 0 /\ is_whitespace(get_char(c, end_idx - 1))
    THEN IF get_char(c, end_idx - 1) = "\n"
         THEN IF found_newline THEN <<end_idx, TRUE>>
              ELSE PrevWordSkip(c, end_idx - 1, TRUE)
         ELSE PrevWordSkip(c, end_idx - 1, found_newline)
    ELSE <<end_idx, FALSE>>

\* the second while loop, were it to stop one scalar early
PrevWordRun_short(c, end_idx, initial_char_type) ==
    IF end_idx > 1
       /\ get_char_kind(get_char(c, end_idx - 2), FALSE) = initial_char_type
    THEN end_idx - 1
    ELSE end_idx

\* find_prev_word, second while loop: back to the start of the run
RECURSIVE PrevWordRun(_, _, _)
PrevWordRun(c, end_idx, initial_char_type) ==
    IF end_idx > 0
       /\ get_char_kind(get_char(c, end_idx - 1), FALSE) = initial_char_type
    THEN PrevWordRun(c, end_idx - 1, initial_char_type)
    ELSE end_idx

\* the offset find_prev_word lands on (count is 1, bigword is false)
PrevWordEnd(c, start_idx) ==
    LET skipped == PrevWordSkip(c, start_idx, FALSE)
    IN  IF skipped[2] \/ skipped[1] = 0 THEN skipped[1]
        ELSE PrevWordRun(c, skipped[1],
                 get_char_kind(get_char(c, skipped[1] - 1), FALSE))

\* TextObject::find_prev_word
find_prev_word(c, row, col) ==
    LET start_idx == to_offset(c, col, row)
    IN  IF start_idx = PANIC THEN Panic(c)
        ELSE PosResult(c, PrevWordEnd(c, start_idx))

\* the for loop of skip_whitespace_forward over chars_at(i)
RECURSIVE SkipWhitespaceLoop(_, _, _, _)
SkipWhitespaceLoop(c, i, end_idx, bigword) ==
    IF i >= Len(c) THEN end_idx
    ELSE IF kind(c[i + 1], bigword) # "Whitespace" THEN end_idx + 1
    ELSE SkipWhitespaceLoop(c, i + 1, end_idx + 1, bigword)

\* TextObject::skip_whitespace_forward
skip_whitespace_forward(c, start_idx, bigword) ==
    IF get_char(c, start_idx) # "None"
       /\ get_char_kind(get_char(c, start_idx), bigword) = "Whitespace"
    THEN SkipWhitespaceLoop(c, start_idx + 1, start_idx, bigword)
    ELSE start_idx

\* the for loop of find_word_end over chars_at(i)
RECURSIVE WordEndLoop(_, _, _, _, _)
WordEndLoop(c, i, initial_char, end_idx, bigword) ==
    IF i >= Len(c) THEN end_idx
    ELSE IF kind(c[i + 1], bigword) # kind(initial_char, bigword) THEN end_idx
    ELSE WordEndLoop(c, i + 1, initial_char, end_idx + 1, bigword)

\* TextObject::find_word_end
find_word_end(c, row, col, bigword) ==
    LET start_idx == to_offset(c, col, row)
        end_idx == skip_whitespace_forward(c, start_idx + 1, bigword)
    IN  IF start_idx = PANIC THEN Panic(c)
        ELSE IF get_char(c, end_idx) = "None" THEN PosResult(c, end_idx)
        ELSE PosResult(c, WordEndLoop(c, end_idx + 1, get_char(c, end_idx),
                                      end_idx, bigword))

\* the while loop of find_empty_line_above
RECURSIVE EmptyLineAboveLoop(_, _, _)
EmptyLineAboveLoop(c, lb, new_row) ==
    IF get_line(c, new_row) = NoLine THEN new_row
    ELSE IF get_line(c, new_row) = LineBreakStr(lb) THEN new_row
    ELSE IF new_row = 0 THEN new_row
    ELSE EmptyLineAboveLoop(c, lb, new_row - 1)

\* TextObject::find_empty_line_above
find_empty_line_above(c, lb, row) ==
    Ok(c, <<EmptyLineAboveLoop(c, lb, saturating_sub(row, 1))>>)

\* the while loop of find_empty_line_below
RECURSIVE EmptyLineBelowLoop(_, _, _)
EmptyLineBelowLoop(c, lb, new_row) ==
    IF get_line(c, new_row) = NoLine THEN new_row
    ELSE IF get_line(c, new_row) = LineBreakStr(lb) THEN new_row
    ELSE EmptyLineBelowLoop(c, lb, new_row + 1)

Min(a, b) == IF a <= b THEN a ELSE b

\* TextObject::find_empty_line_below
find_empty_line_below(c, lb, row) ==
    Ok(c, <<Min(EmptyLineBelowLoop(c, lb, row + 1),
                saturating_sub(len_lines(c), 1))>>)

\* char::default(), the token_to_search before a bracket is met
NUL == "NUL"

\* the combinations HashMap of find_oposing_token
Combination(ch) ==
    CASE ch = "(" -> ")" [] ch = ")" -> "("
      [] ch = "[" -> "]" [] ch = "]" -> "["
      [] ch = "{" -> "}" [] ch = "}" -> "{"
      [] ch = "<" -> ">" [] ch = ">" -> "<"

\* the for loop of find_oposing_token, n iterations left:
\* <<curr_open, walked>> when it is over
RECURSIVE OposingTokenLoop(_, _, _, _, _, _, _)
OposingTokenLoop(c, start_idx, look_forward, token_to_search, curr_open, walked, n) ==
    IF n = 0 THEN <<curr_open, walked>>
    ELSE LET char == IF look_forward THEN c[start_idx + 1 + walked + 1]
                     ELSE c[start_idx - walked - 1 + 1]
         IN  IF token_to_search = NUL /\ ~is_opening_token(char)
             THEN OposingTokenLoop(c, start_idx, look_forward,
                      token_to_search, curr_open, walked + 1, n - 1)
             ELSE LET token == IF token_to_search = NUL
                               THEN Combination(char) ELSE token_to_search
                      opened == IF char = Combination(token)
                                THEN curr_open + 1 ELSE curr_open
                      closed == IF char = token THEN opened - 1 ELSE opened
                  IN  IF closed = 0 THEN <<closed, walked + 1>>
                      ELSE OposingTokenLoop(c, start_idx, look_forward,
                               token, closed, walked + 1, n - 1)

\* the scan, were it to stop at the nearest opposing token without counting
\* the pairs nested in between
OposingTokenScan_flat(c, start_idx) ==
    LET initial_char == get_char(c, start_idx)
        fwd == {j \in (start_idx + 1)..(Len(c) - 1) :
                    c[j + 1] = Combination(initial_char)}
        bwd == {j \in 0..(start_idx - 1) :
                    c[j + 1] = Combination(initial_char)}
    IN  IF initial_char # "None" /\ is_opening_token(initial_char)
           /\ fwd # {}
        THEN <<TRUE, 0, (CHOOSE j \in fwd : \A k \in fwd : j <= k) - start_idx>>
        ELSE IF initial_char # "None" /\ is_closing_token(initial_char)
                /\ bwd # {}
        THEN <<FALSE, 0, start_idx - (CHOOSE j \in bwd : \A k \in bwd : j >= k)>>
        ELSE <<TRUE, 1, 0>>

\* find_oposing_token up to the end of its scan:
\* <<look_forward, curr_open, walked>>
OposingTokenScan(c, start_idx) ==
    LET initial_char == get_char(c, start_idx)
        look_forward == ~(initial_char # "None"
                          /\ ~is_opening_token(initial_char)
                          /\ is_closing_token(initial_char))
        token == IF is_opening_token(initial_char)
                    \/ is_closing_token(initial_char)
                 THEN Combination(initial_char) ELSE NUL
        curr_open == IF token = NUL THEN 0 ELSE 1
        n == IF look_forward THEN saturating_sub(Len(c), start_idx + 1)
             ELSE start_idx
    IN  IF initial_char = "None" THEN <<TRUE, 0, 0>>
        ELSE <<look_forward>>
             \o OposingTokenLoop(c, start_idx, look_forward, token,
                                 curr_open, 0, n)

\* find_oposing_token, were it to use its &mut self to drop the scalar
\* under the cursor
find_oposing_token_mutating(c, row, col) ==
    LET start_idx == to_offset(c, col, row)
        scan == OposingTokenScan(c, start_idx)
    IN  IF start_idx = PANIC THEN Panic(c)
        ELSE IF scan[2] > 0 THEN Ok(c, <<col, row>>)
        ELSE Ok(try_remove(c, start_idx, start_idx + 1), <<col, row>>)

\* TextObject::find_oposing_token
find_oposing_token(c, row, col) ==
    LET start_idx == to_offset(c, col, row)
        scan == OposingTokenScan(c, start_idx)
    IN  IF start_idx = PANIC THEN Panic(c)
        ELSE IF scan[2] > 0 THEN Ok(c, <<col, row>>)
        ELSE IF scan[1] THEN PosResult(c, start_idx + scan[3])
        ELSE PosResult(c, start_idx - scan[3])

----------------------------------------------------------------------------
(* The state machine: one buffer and its caller *)

\* scalar sequences of length at most n over the alphabet
Strs(n) == UNION {[1..k -> Alphabet] : k \in 0..n}

\* hand-picked contents: CRLF text with empty lines, multi-byte scalars,
\* nested and mixed brackets, a lone CR
ExtraInputs ==
    { <<"\r", "\n", "\r", "\n">>,
      <<"a", "\r", "\n", "\r", "\n", "a">>,
      <<"a", "\n", " ", "\n", "a">>,
      <<"é", "é", " ", "a">>,
      <<"(", "(", ")", ")">>,
      <<"(", "[", ")", "]">>,
      <<"a", ",", "a", "\t", "a">>,
      <<"(", "\r", " ">> }

\* the &str arguments of TextObject::from
Inputs == {to_string(cs) : cs \in Strs(MaxLen) \cup ExtraInputs}

Cursors == [row : 0..MaxRow, col : 0..MaxCol]

\* impl Default for TextObject, held in either capability state
Init ==
    /\ content = <<>>
    /\ line_break = "Lf"
    /\ state \in {"Readonly", "Write"}
    /\ cursor = [row |-> 0, col |-> 0]
    /\ op = "default"
    /\ arg = <<>>
    /\ ret = <<>>
    /\ panicked = FALSE

\* let object = TextObject::from(s), once, in place of the default buffer
From ==
    /\ op = "default"
    /\ \E s \in Inputs :
        /\ content' = from(s).content
        /\ line_break' = from(s).line_break
        /\ arg' = s
    /\ state' = "Readonly"
    /\ op' = "from"
    /\ ret' = <<>>
    /\ UNCHANGED <<cursor, panicked>>

\* TextObject::with_write
WithWrite ==
    /\ state = "Readonly"
    /\ state' = "Write"
    /\ op' = "with_write"
    /\ arg' = <<>>
    /\ ret' = <<>>
    /\ UNCHANGED <<content, line_break, cursor, panicked>>

\* the caller moves its own cursor between calls
MoveCursor ==
    /\ state = "Write"
    /\ ~panicked
    /\ \E cur \in Cursors : cur # cursor /\ cursor' = cur
    /\ op' = "cursor"
    /\ arg' = <<>>
    /\ ret' = <<>>
    /\ UNCHANGED <<content, line_break, state, panicked>>

\* a call name(args, &cursor) on the Write buffer with outcome out
Call(name, args, out) ==
    /\ state = "Write"
    /\ ~panicked
    /\ content' = out.content
    /\ ret' = out.ret
    /\ panicked' = out.panic
    /\ op' = name
    /\ arg' = args
    /\ UNCHANGED <<line_break, state, cursor>>

InsertChar ==
    \E ch \in Alphabet :
        /\ Len(content) < MaxLen
        /\ Call("insert_char", <<ch>>,
                insert_char(content, ch, cursor.row, cursor.col))

InsertNewline ==
    /\ Len(content) + LineBreakLen(line_break) <= MaxLen
    /\ Call("insert_newline", <<>>,
            insert_newline(content, line_break, cursor.row, cursor.col))

EraseBackwardsUpToLineStart ==
    Call("erase_backwards_up_to_line_start", <<>>,
         erase_backwards_up_to_line_start(content, cursor.row, cursor.col))

ErasePreviousChar ==
    Call("erase_previous_char", <<>>,
         erase_previous_char(content, cursor.row, cursor.col))

EraseCurrentChar ==
    Call("erase_current_char", <<>>,
         erase_current_char(content, cursor.row, cursor.col))

EraseUntilEol ==
    Call("erase_until_eol", <<>>,
         erase_until_eol(content, cursor.row, cursor.col))

\* delete_line takes the row, which the caller reads off its cursor
DeleteLine ==
    Call("delete_line", <<>>, delete_line(content, cursor.row))

DeleteWord ==
    Call("delete_word", <<>>,
         delete_word(content, line_break, cursor.row, cursor.col))

DeleteWordBackwards ==
    \E overflow_checks \in BOOLEAN :
        Call("delete_word_backwards", <<>>,
             delete_word_backwards(content, line_break, cursor.row,
                                   cursor.col, overflow_checks))

InsertLineBelow ==
    \E tree \in Trees :
        /\ Len(content) + LineBreakLen(line_break) <= MaxLen
        /\ Call("insert_line_below", tree,
                insert_line_below(content, line_break, cursor.row, tree))

InsertLineAbove ==
    \E tree \in Trees :
        /\ Len(content) + LineBreakLen(line_break) <= MaxLen
        /\ Call("insert_line_above", tree,
                insert_line_above(content, line_break, cursor.row, tree))

FindCharBeforeWhitespace ==
    Call("find_char_before_whitespace", <<>>,
         find_char_before_whitespace(content, cursor.row, cursor.col))

FindNextWord ==
    \E bigword \in BOOLEAN :
        Call("find_next_word", <<bigword>>,
             find_next_word(content, cursor.row, cursor.col, bigword))

FindPrevWord ==
    Call("find_prev_word", <<>>,
         find_prev_word(content, cursor.row, cursor.col))

FindWordEnd ==
    \E bigword \in BOOLEAN :
        Call("find_word_end", <<bigword>>,
             find_word_end(content, cursor.row, cursor.col, bigword))

FindEmptyLineAbove ==
    Call("find_empty_line_above", <<>>,
         find_empty_line_above(content, line_break, cursor.row))

FindEmptyLineBelow ==
    Call("find_empty_line_below", <<>>,
         find_empty_line_below(content, line_break, cursor.row))

FindOposingToken ==
    Call("find_oposing_token", <<>>,
         find_oposing_token(content, cursor.row, cursor.col))

\* line_len_with_linebreak takes the row, which the caller reads off its
\* cursor
LineLenWithLinebreak ==
    Call("line_len_with_linebreak", <<>>,
         IF line_len_with_linebreak(content, cursor.row) = PANIC
         THEN Panic(content)
         ELSE Ok(content, <<line_len_with_linebreak(content, cursor.row)>>))

LineLen ==
    Call("line_len", <<>>,
         IF line_len(content, line_break, cursor.row) = PANIC
         THEN Panic(content)
         ELSE Ok(content, <<line_len(content, line_break, cursor.row)>>))

Next ==
    \/ From
    \/ WithWrite
    \/ MoveCursor
    \/ InsertChar
    \/ InsertNewline
    \/ EraseBackwardsUpToLineStart
    \/ ErasePreviousChar
    \/ EraseCurrentChar
    \/ EraseUntilEol
    \/ DeleteLine
    \/ DeleteWord
    \/ DeleteWordBackwards
    \/ InsertLineBelow
    \/ InsertLineAbove
    \/ FindCharBeforeWhitespace
    \/ FindNextWord
    \/ FindPrevWord
    \/ FindWordEnd
    \/ FindEmptyLineAbove
    \/ FindEmptyLineBelow
    \/ FindOposingToken
    \/ LineLenWithLinebreak
    \/ LineLen

Spec == Init /\ [][Next]_vars

----------------------------------------------------------------------------
(* A caller that repeats one word motion, feeding each position returned   *)
(* back as the cursor of the next call                                     *)

\* a loaded buffer in the Write state and a cursor the caller has placed
WalkInit ==
    /\ \E s \in Inputs :
           /\ content = from(s).content
           /\ line_break = from(s).line_break
    /\ state = "Write"
    /\ cursor \in Cursors
    /\ to_offset(content, cursor.col, cursor.row) # PANIC
    /\ op = "cursor"
    /\ arg = <<>>
    /\ ret = <<>>
    /\ panicked = FALSE

\* a motion is called and the caller moves its cursor to the position
\* (col, row) it returned
WalkCall(name, args, out) ==
    /\ ~panicked
    /\ ret' = out.ret
    /\ panicked' = out.panic
    /\ cursor' = IF out.panic THEN cursor
                 ELSE [row |-> out.ret[2], col |-> out.ret[1]]
    /\ op' = name
    /\ arg' = args
    /\ UNCHANGED <<content, line_break, state>>

\* find_next_word can be called again: the cursor is before the content end
CanWalkNextWord ==
    /\ ~panicked
    /\ op \in {"cursor", "find_next_word"}
    /\ to_offset(content, cursor.col, cursor.row) < Len(content)

\* find_prev_word can be called again: the cursor is after offset 0
CanWalkPrevWord ==
    /\ ~panicked
    /\ op \in {"cursor", "find_prev_word"}
    /\ to_offset(content, cursor.col, cursor.row) > 0

WalkNextWord ==
    /\ CanWalkNextWord
    /\ \E bigword \in BOOLEAN :
           WalkCall("find_next_word", <<bigword>>,
                    find_next_word(content, cursor.row, cursor.col, bigword))

WalkPrevWord ==
    /\ CanWalkPrevWord
    /\ WalkCall("find_prev_word", <<>>,
                find_prev_word(content, cursor.row, cursor.col))

WalkNext ==
    \/ WalkNextWord
    \/ WalkPrevWord

\* the caller goes on calling for as long as the motion can be called:
\* weak fairness of each of the two calls (WF_vars(WalkNextWord) and
\* WF_vars(WalkPrevWord)), with ENABLED written out as the guard of the call
WalkFairness ==
    /\ ([]<>~CanWalkNextWord) \/ ([]<><<WalkNextWord>>_vars)
    /\ ([]<>~CanWalkPrevWord) \/ ([]<><<WalkPrevWord>>_vars)

WalkSpec == WalkInit /\ [][WalkNext]_vars /\ WalkFairness

----------------------------------------------------------------------------
(* Properties *)

Motions ==
    {"find_word_end", "find_next_word", "find_prev_word",
     "find_char_before_whitespace", "find_empty_line_above",
     "find_empty_line_below", "find_oposing_token"}

Removals ==
    {"erase_previous_char", "erase_backwards_up_to_line_start",
     "erase_current_char", "erase_until_eol", "delete_line", "delete_word",
     "delete_word_backwards"}

Insertions ==
    {"insert_char", "insert_newline", "insert_line_above",
     "insert_line_below"}

\* C1: no edit and no motion panics, whatever the content and the cursor,
\* and none lets an unsigned offset wrap below zero.
C1_NoPanic ==
    /\ ~panicked
    /\ op = "delete_word_backwards" => ret[1] >= 0

\* C2: the rendering of TextObject::from(s) is s, and after with_write the
\* rendering is still s and the line break is the one from detected.
C2_RoundTrip ==
    [][/\ op' = "from" => render(content') = arg'
       /\ (op = "from" /\ op' = "with_write") =>
              /\ render(content') = arg
              /\ line_break' = line_break]_vars

\* a CRLF text with a multi-line body was loaded and upgraded
C2_Witness ==
    /\ op = "with_write"
    /\ state = "Write"
    /\ content = <<"a", "\r", "\n", "\r", "\n", "a">>
    /\ line_break = "Crlf"

\* the char range a removal computes from the cursor: <<start, end>>,
\* or <<>> when the call returns or panics before it has one
RemovalRange(name, c, lb, cur) ==
    LET r == CASE name = "erase_previous_char" ->
                      erase_previous_char_range(c, cur.row, cur.col)
               [] name = "erase_backwards_up_to_line_start" ->
                      IF cur.col = 0 THEN <<>>
                      ELSE erase_previous_char_range(c, cur.row, cur.col)
               [] name = "erase_current_char" ->
                      erase_current_char_range(c, cur.row, cur.col)
               [] name = "erase_until_eol" ->
                      erase_until_eol_range(c, cur.row, cur.col)
               [] name = "delete_line" -> delete_line_range(c, cur.row)
               [] name = "delete_word" ->
                      delete_word_range(c, lb, cur.row, cur.col)
               [] name = "delete_word_backwards" ->
                      delete_word_backwards_range(c, lb, cur.row, cur.col)
    IN  IF r = PANICKED THEN <<>> ELSE r

\* C3: a removal whose computed range is not a valid range inside
\* [0, len_chars] returns normally and leaves the rendering as it was.
C3_InvalidRangeAbsorbed ==
    [][(/\ op' \in Removals
        /\ RemovalRange(op', content, line_break, cursor) # <<>>
        /\ ~RangeOk(content,
                    RemovalRange(op', content, line_break, cursor)[1],
                    RemovalRange(op', content, line_break, cursor)[2]))
       => (~panicked' /\ render(content') = render(content))]_vars

\* C4: the buffer always has at least one line, and an empty buffer has
\* exactly one line, of length 0.
C4_AtLeastOneLine ==
    /\ len_lines(content) >= 1
    /\ content = <<>> =>
           /\ len_lines(content) = 1
           /\ line_len(content, line_break, 0) = 0
           /\ line_len_with_linebreak(content, 0) = 0

\* an edit has emptied a buffer that was loaded with text
C4_Witness ==
    /\ op = "delete_line"
    /\ ~panicked
    /\ content = <<>>
    /\ line_break = "Crlf"

\* the first line terminator of c is "\r\n": line 0 contains "\r\n"
FirstTerminatorIsCrlf(c) ==
    \E i \in 1..(Len(c) - 1) :
        /\ c[i] = "\r" /\ c[i + 1] = "\n"
        /\ \A j \in 1..(i - 1) : c[j] \notin {"\n", "\r"}

\* new is old with k spaces and then the terminator term put in at offset off
InsertedLine(old, new, off, k, term) ==
    new = SubSeq(old, 1, off) \o [i \in 1..k |-> " "] \o term
              \o SubSeq(old, off + 1, Len(old))

\* C5: the policy is CRLF exactly when line 0 of the loaded text contains
\* "\r\n"; no call changes it; insert_newline, insert_line_above and
\* insert_line_below put in exactly the policy's terminator ("\n" for LF,
\* "\r\n" for CRLF) and leave every scalar that was there in place.
C5_LineBreakPolicy ==
    [][/\ op' = "from" =>
              (line_break' = "Crlf" <=> FirstTerminatorIsCrlf(content'))
       /\ op' # "from" => line_break' = line_break
       /\ (op' = "insert_newline" /\ ~panicked') =>
              InsertedLine(content, content',
                  to_offset(content, cursor.col, cursor.row), 0,
                  IF line_break = "Lf" THEN <<"\n">> ELSE <<"\r", "\n">>)
       /\ (op' \in {"insert_line_above", "insert_line_below"}
           /\ ~panicked') =>
              \E off \in 0..Len(content) :
                  InsertedLine(content, content', off,
                      IF arg' = <<>> THEN 0 ELSE 2 * arg'[1],
                      IF line_break = "Lf" THEN <<"\n">> ELSE <<"\r", "\n">>)
      ]_vars

\* insert_newline has put "\r\n" at the cursor of a CRLF buffer
C5_Witness ==
    /\ op = "insert_newline"
    /\ ~panicked
    /\ line_break = "Crlf"
    /\ cursor = [row |-> 0, col |-> 0]
    /\ content = <<"\r", "\n">>

\* C6: a motion leaves the content and the line-break policy as they were,
\* and no call, motion or edit, changes the cursor it was given.
C6_MotionsFrame ==
    [][/\ op' \in Motions =>
              (content' = content /\ line_break' = line_break)
       /\ op' \in Motions \cup Removals \cup Insertions =>
              cursor' = cursor]_vars

\* find_oposing_token (&mut self) has found the closer of a nested pair
C6_Witness ==
    /\ op = "find_oposing_token"
    /\ ~panicked
    /\ content = <<"(", "(", ")", ")">>
    /\ cursor = [row |-> 0, col |-> 0]
    /\ ret = <<3, 0>>

\* C7: on the empty buffer with the cursor at (0, 0) every motion returns
\* the origin: (col 0, row 0), or row 0 for the empty-line motions.
C7_EmptyBufferOrigin ==
    (content = <<>> /\ cursor = [row |-> 0, col |-> 0] /\ op \in Motions) =>
        /\ ~panicked
        /\ ret = IF op \in {"find_empty_line_above", "find_empty_line_below"}
                 THEN <<0>> ELSE <<0, 0>>

----------------------------------------------------------------------------
(* Word motions, stated over offsets *)

\* the class of the scalar at offset i; "Unknown" when there is none
KindAt(c, i, bigword) ==
    IF i >= 0 /\ i < Len(c) THEN kind(c[i + 1], bigword) ELSE "Unknown"

\* the first offset at or after i that is the content end or holds a
\* scalar whose class is not k
RunEndFrom(c, i, k, bigword) ==
    CHOOSE e \in i..Len(c) :
        /\ e = Len(c) \/ KindAt(c, e, bigword) # k
        /\ \A j \in i..(e - 1) : KindAt(c, j, bigword) = k

\* where find_next_word starts to skip whitespace from offset p
WordRunEnd(c, p, bigword) ==
    IF KindAt(c, p, bigword) \in {"Whitespace", "Unknown"} THEN p
    ELSE RunEndFrom(c, p, KindAt(c, p, bigword), bigword)

\* the offsets of the "\n" scalars in [lo, hi)
NewlinesIn(c, lo, hi) == {i \in lo..(hi - 1) : c[i + 1] = "\n"}

\* the offset at which the line terminator that ends with the "\n" at
\* offset i begins
TerminatorStart(c, i) == IF i > 0 /\ c[i] = "\r" THEN i - 1 ELSE i

\* <<col, row>> is the position of offset idx: row is the line idx lies in
IsPositionOf(c, pos, idx) ==
    /\ Len(pos) = 2
    /\ pos[2] < len_lines(c)
    /\ line_to_char(c, pos[2]) + pos[1] = idx
    /\ pos[2] + 1 < len_lines(c) => idx < line_to_char(c, pos[2] + 1)

\* the offset of the cursor, when its row has one
CursorOffset == to_offset(content, cursor.col, cursor.row)

\* C8: when find_next_word, skipping whitespace, meets a line terminator
\* for the second time before any non-whitespace scalar, it returns the
\* position of that second terminator, and that is column 0 of its line,
\* in LF and in CRLF buffers.
C8_StopsAtEmptyLine ==
    (/\ op = "find_next_word"
     /\ CursorOffset # PANIC
     /\ CursorOffset <= Len(content)) =>
        LET ws == WordRunEnd(content, CursorOffset, arg[1])
            nonws == RunEndFrom(content, ws, "Whitespace", arg[1])
            met == NewlinesIn(content, ws, nonws)
            second == CHOOSE i \in met :
                          Cardinality({j \in met : j < i}) = 1
        IN  Cardinality(met) >= 2 =>
                /\ ~panicked
                /\ IsPositionOf(content, ret,
                                TerminatorStart(content, second))
                /\ ret[1] = 0

\* C9: from an offset p <= len_chars, with no second line terminator in
\* the whitespace skipped, find_next_word returns the position of r: past
\* the run of the class of the scalar at p (when that is not whitespace),
\* then past the whitespace run, at most len_chars; the scalar at r is
\* absent, or is not whitespace and follows whitespace or another class.
C9_NextWord ==
    (/\ op = "find_next_word"
     /\ CursorOffset # PANIC
     /\ CursorOffset <= Len(content)) =>
        LET ws == WordRunEnd(content, CursorOffset, arg[1])
            r == RunEndFrom(content, ws, "Whitespace", arg[1])
        IN  Cardinality(NewlinesIn(content, ws, r)) < 2 =>
                /\ ~panicked
                /\ IsPositionOf(content, ret, r)
                /\ r <= Len(content)
                /\ r < Len(content) =>
                       /\ KindAt(content, r, arg[1]) # "Whitespace"
                       /\ r > CursorOffset
                       /\ KindAt(content, r - 1, arg[1])
                              \in {"Whitespace"} \cup
                                  ({"Word", "Punctuation"}
                                       \ {KindAt(content, r, arg[1])})

\* bigword find_next_word has gone over a word, punctuation and a tab
C9_Witness ==
    /\ op = "find_next_word"
    /\ ~panicked
    /\ arg = <<TRUE>>
    /\ content = <<"a", ",", "a", "\t", "a">>
    /\ cursor = [row |-> 0, col |-> 0]
    /\ ret = <<4, 0>>

\* the first offset at or before i that is 0 or follows a scalar whose
\* class (bigword off) is not k
RunStartTo(c, i, k) ==
    CHOOSE s \in 0..i :
        /\ s = 0 \/ KindAt(c, s - 1, FALSE) # k
        /\ \A j \in s..(i - 1) : KindAt(c, j, FALSE) = k

\* C10: find_prev_word from offset p skips the whitespace run that ends at
\* p - 1; if that skip meets a second line terminator it returns the
\* position just after it, which is column 0; else if it reaches offset 0
\* it returns (0, 0); else it returns the start q of the run it reached:
\* q <= p, the scalar at q is not whitespace and the one at q - 1 is
\* absent or of another class.
C10_PrevWord ==
    (op = "find_prev_word" /\ CursorOffset # PANIC) =>
        LET p == CursorOffset
            ws == RunStartTo(content, p, "Whitespace")
            met == NewlinesIn(content, ws, p)
            second == CHOOSE i \in met :
                          Cardinality({j \in met : j > i}) = 1
            q == RunStartTo(content, ws, KindAt(content, ws - 1, FALSE))
        IN  /\ ~panicked
            /\ IF Cardinality(met) >= 2
               THEN IsPositionOf(content, ret, second + 1) /\ ret[1] = 0
               ELSE IF ws = 0 THEN ret = <<0, 0>>
               ELSE /\ IsPositionOf(content, ret, q)
                    /\ q <= p
                    /\ KindAt(content, q, FALSE) # "Whitespace"
                    /\ q = 0 \/ KindAt(content, q - 1, FALSE)
                                    # KindAt(content, q, FALSE)

\* find_prev_word has stopped on the empty line between two words
C10_Witness ==
    /\ op = "find_prev_word"
    /\ ~panicked
    /\ content = <<"a", "\r", "\n", "\r", "\n", "a">>
    /\ cursor = [row |-> 2, col |-> 0]
    /\ ret = <<0, 1>>

----------------------------------------------------------------------------
(* find_word_end *)

\* C11: find_word_end from offset p scans from p + 1, skips the whitespace
\* run there and returns the position of e, the last scalar of the run of
\* one class that begins at the first non-whitespace scalar f (the scalar
\* at e + 1 is absent or of another class); when the content ends before a
\* non-whitespace scalar is found it returns the last offset of the
\* content, never one beyond len_chars.
C11_WordEnd ==
    (op = "find_word_end" /\ CursorOffset # PANIC) =>
        LET s == CursorOffset + 1
            f == IF s <= Len(content)
                 THEN RunEndFrom(content, s, "Whitespace", arg[1])
                 ELSE Len(content)
            e == RunEndFrom(content, f, KindAt(content, f, arg[1]), arg[1]) - 1
        IN  /\ ~panicked
            /\ IF f < Len(content)
               THEN /\ IsPositionOf(content, ret, e)
                    /\ e >= f
                    /\ \A j \in f..e : KindAt(content, j, arg[1])
                                            = KindAt(content, f, arg[1])
                    /\ KindAt(content, e + 1, arg[1])
                           # KindAt(content, f, arg[1])
               ELSE \E idx \in {Len(content) - 1, Len(content)} :
                        idx >= 0 /\ IsPositionOf(content, ret, idx)

----------------------------------------------------------------------------
(* find_oposing_token *)

\* the nesting depth at offset q of a forward scan that began at depth 1 on
\* the opener at offset p: +1 for each further opener, -1 for each closer
DepthForward(c, p, q) ==
    1 + Cardinality({j \in (p + 1)..q : c[j + 1] = c[p + 1]})
      - Cardinality({j \in (p + 1)..q : c[j + 1] = Combination(c[p + 1])})

\* the same for a backward scan from the closer at offset p down to q
DepthBackward(c, p, q) ==
    1 + Cardinality({j \in q..(p - 1) : c[j + 1] = c[p + 1]})
      - Cardinality({j \in q..(p - 1) : c[j + 1] = Combination(c[p + 1])})

\* the offsets after the opener at p where the depth is back to 0
ClosersOf(c, p) ==
    {q \in (p + 1)..(Len(c) - 1) : DepthForward(c, p, q) = 0}

\* the offsets before the closer at p where the depth is back to 0
OpenersOf(c, p) ==
    {q \in 0..(p - 1) : DepthBackward(c, p, q) = 0}

\* C12: with the cursor on an opening bracket at offset p,
\* find_oposing_token returns the position of the first q > p at which the
\* nesting depth (1 at p, +1 on the same opener, -1 on its closer, other
\* brackets ignored) is back to 0; with the cursor on a closing bracket the
\* scan runs backward and returns the position of the nearest q < p at
\* which the depth is back to 0, the matching opener.
C12_MatchingToken ==
    (/\ op = "find_oposing_token"
     /\ CursorOffset # PANIC
     /\ CursorOffset < Len(content)) =>
        LET p == CursorOffset
            ch == content[p + 1]
        IN  /\ (is_opening_token(ch) /\ ClosersOf(content, p) # {}) =>
                   /\ ~panicked
                   /\ \E q \in ClosersOf(content, p) :
                          /\ \A k \in ClosersOf(content, p) : q <= k
                          /\ content[q + 1] = Combination(ch)
                          /\ IsPositionOf(content, ret, q)
            /\ (is_closing_token(ch) /\ OpenersOf(content, p) # {}) =>
                   /\ ~panicked
                   /\ \E q \in OpenersOf(content, p) :
                          /\ \A k \in OpenersOf(content, p) : q >= k
                          /\ content[q + 1] = Combination(ch)
                          /\ IsPositionOf(content, ret, q)

\* from the outer closer of a nested pair the backward scan has passed the
\* inner pair and found the outer opener
C12_Witness ==
    /\ op = "find_oposing_token"
    /\ ~panicked
    /\ content = <<"(", "(", ")", ")">>
    /\ cursor = [row |-> 0, col |-> 3]
    /\ ret = <<0, 0>>

----------------------------------------------------------------------------
(* Lines, stated over scalars *)

\* the number of scalars of the terminator that ends line row of c: 0 for
\* a last line that has none
TerminatorLen(c, row) ==
    LET text == get_line(c, row)
        n == Len(text)
    IN  IF n >= 2 /\ text[n - 1] = "\r" /\ text[n] = "\n" THEN 2
        ELSE IF n >= 1 /\ text[n] \in {"\n", "\r"} THEN 1
        ELSE 0

\* the scalars of line row of c without its terminator
LineText(c, row) ==
    SubSeq(get_line(c, row), 1, Len(get_line(c, row)) - TerminatorLen(c, row))

\* the cursor is on a line of c, at one of its columns or just past them
CursorInLine(c, cur) ==
    /\ cur.row < len_lines(c)
    /\ cur.col <= Len(LineText(c, cur.row))

\* C13: the value delete_word_backwards returns is the number of scalars
\* it removed, never more than cursor.col, so that for a cursor on its line
\* cursor.col minus that value is a column of the same row afterwards.
C13_CountRemoved ==
    [][(op' = "delete_word_backwards" /\ CursorOffset # PANIC) =>
           /\ ~panicked'
           /\ ret'[1] = Len(content) - Len(content')
           /\ ret'[1] >= 0
           /\ ret'[1] <= cursor.col
           /\ CursorInLine(content, cursor) =>
                  CursorInLine(content',
                      [row |-> cursor.row, col |-> cursor.col - ret'[1]])
      ]_vars

----------------------------------------------------------------------------
(* find_oposing_token without a match *)

\* the offsets of the opening brackets after offset p
OpenersAfter(c, p) ==
    {o \in (p + 1)..(Len(c) - 1) : is_opening_token(c[o + 1])}

\* the scan from the scalar at offset p meets no offset at which the depth
\* is back to 0: an opener without its closer, a closer without its opener,
\* or another scalar with no opener after it or with a first opener after
\* it that is never closed
NoMatch(c, p) ==
    IF is_opening_token(c[p + 1]) THEN ClosersOf(c, p) = {}
    ELSE IF is_closing_token(c[p + 1]) THEN OpenersOf(c, p) = {}
    ELSE \A o \in OpenersAfter(c, p) :
             (\A k \in OpenersAfter(c, p) : o <= k) => ClosersOf(c, o) = {}

\* C14: when find_oposing_token finds no position at which the nesting
\* depth returns to 0, it returns the input position (cursor.col,
\* cursor.row) unchanged: for an opener with no closer after it, a closer
\* with no opener before it, and a non-bracket with no pair after it.
C14_NoMatchNoMove ==
    (/\ op = "find_oposing_token"
     /\ CursorOffset # PANIC
     /\ CursorOffset < Len(content)
     /\ NoMatch(content, CursorOffset)) =>
        /\ ~panicked
        /\ ret = <<cursor.col, cursor.row>>

----------------------------------------------------------------------------
(* delete_word *)

\* where a forward word deletion from offset p stops: the first offset at
\* or after p that is the content end, or holds a line terminator scalar,
\* or holds a scalar that is alphanumeric when the one at p is not (and not
\* when it is)
WordStop(c, p) ==
    CHOOSE q \in p..Len(c) :
        LET stops(i) ==
                \/ i = Len(c)
                \/ c[i + 1] \in {"\n", "\r"}
                \/ char_is_alphanumeric(c[i + 1])
                       # char_is_alphanumeric(c[p + 1])
        IN  stops(q) /\ \A j \in p..(q - 1) : ~stops(j)

\* C15: delete_word with the cursor at offset p removes exactly the scalars
\* in [p, stop), stop being the first offset >= p whose scalar differs from
\* the scalar at p in the word / non-word sense, or is a line terminator,
\* or is the content end: what was before p and from stop on remains, in
\* order. It holds at p = 0 too, and past the content nothing is removed.
C15_DeleteWordRange ==
    [][(op' = "delete_word" /\ CursorOffset # PANIC) =>
           /\ ~panicked'
           /\ content' =
                  IF CursorOffset >= Len(content) THEN content
                  ELSE SubSeq(content, 1, CursorOffset)
                       \o SubSeq(content, WordStop(content, CursorOffset) + 1,
                                 Len(content))
      ]_vars

----------------------------------------------------------------------------
(* The two backward erasures *)

\* c without the single scalar before offset p; c itself when p is 0 or
\* lies beyond the content
ErasedBefore(c, p) ==
    IF p > 0 /\ p <= Len(c)
    THEN SubSeq(c, 1, p - 1) \o SubSeq(c, p + 1, Len(c))
    ELSE c

\* C16 as stated: erase_backwards_up_to_line_start and erase_previous_char
\* give the same content for every cursor, the old content without the
\* scalar at offset - 1 when the offset is above 0 and the old content when
\* it is 0.
C16_SameErasure ==
    [][(/\ op' \in {"erase_backwards_up_to_line_start",
                    "erase_previous_char"}
        /\ CursorOffset # PANIC) =>
           /\ ~panicked'
           /\ content' = ErasedBefore(content, CursorOffset)]_vars

\* C16 amended: erase_previous_char gives the old content without the
\* scalar at offset - 1 when the offset is above 0 and the old content when
\* it is 0; erase_backwards_up_to_line_start gives the same when cursor.col
\* is above 0 and leaves the content unchanged when cursor.col is 0,
\* whatever the row.
C16_ErasureUpToLineStart ==
    [][(/\ op' \in {"erase_backwards_up_to_line_start",
                    "erase_previous_char"}
        /\ CursorOffset # PANIC) =>
           /\ ~panicked'
           /\ content' =
                  IF op' = "erase_backwards_up_to_line_start"
                     /\ cursor.col = 0
                  THEN content
                  ELSE ErasedBefore(content, CursorOffset)]_vars

\* erase_backwards_up_to_line_start at column 0 of the second line has
\* left the terminator of the first line in place
C16_Witness ==
    /\ op = "erase_backwards_up_to_line_start"
    /\ ~panicked
    /\ cursor = [row |-> 1, col |-> 0]
    /\ content = <<"a", "\n">>

----------------------------------------------------------------------------
(* erase_until_eol *)

\* c with line row cut down to its first col scalars and its terminator
ErasedToLineEnd(c, row, col) ==
    SubSeq(c, 1, line_to_char(c, row) + col)
    \o SubSeq(c, line_to_char(c, row) + Len(LineText(c, row)) + 1, Len(c))

\* C17: after erase_until_eol with cursor.col within the line, the line is
\* its first cursor.col scalars followed by its original terminator, whole,
\* if it had one; the other lines and the line count are unchanged; for LF
\* lines, CRLF lines and a last line without a terminator.
C17_EraseUntilEol ==
    [][(op' = "erase_until_eol" /\ CursorInLine(content, cursor)) =>
           /\ ~panicked'
           /\ content' = ErasedToLineEnd(content, cursor.row, cursor.col)
           /\ len_lines(content') = len_lines(content)
           /\ \A r \in 0..(len_lines(content) - 1) :
                  r # cursor.row =>
                      get_line(content', r) = get_line(content, r)]_vars

----------------------------------------------------------------------------
(* Line lengths *)

\* C18: for every row below the line count, line_len(row) is the number of
\* scalars of the line without its terminator and line_len_with_linebreak
\* (row) the number with it, for lines with multi-byte scalars and for a
\* last line without a terminator too.
C18_LineLenInScalars ==
    (/\ op \in {"line_len", "line_len_with_linebreak"}
     /\ cursor.row < len_lines(content)) =>
        /\ ~panicked
        /\ ret = IF op = "line_len"
                 THEN <<Len(LineText(content, cursor.row))>>
                 ELSE <<Len(get_line(content, cursor.row))>>

----------------------------------------------------------------------------
(* insert_line_below, insert_line_above *)

\* the line the insertions build for the tree handed in: two spaces per
\* level (none without a tree), then the buffer's terminator
IndentedLine(tree, lb) ==
    [i \in 1..(IF tree = <<>> THEN 0 ELSE 2 * tree[1]) |-> " "]
    \o (IF lb = "Lf" THEN <<"\n">> ELSE <<"\r", "\n">>)

\* C19: after insert_line_below the line at cursor.row + 1 is exactly the
\* indentation and the terminator, the lines up to cursor.row keep their
\* text and the lines that followed are one row further down; after
\* insert_line_above the new line is at cursor.row and the lines from
\* cursor.row on are one row further down, the lines before it unchanged;
\* for every row of the buffer, the unterminated last line included.
C19_InsertedLine ==
    [][(/\ op' \in {"insert_line_below", "insert_line_above"}
        /\ cursor.row < len_lines(content)) =>
           LET new == IF op' = "insert_line_below"
                      THEN cursor.row + 1 ELSE cursor.row
           IN  /\ ~panicked'
               /\ len_lines(content') = len_lines(content) + 1
               /\ get_line(content', new) = IndentedLine(arg', line_break)
               /\ \A r \in 0..(new - 1) :
                      LineText(content', r) = LineText(content, r)
               /\ \A r \in new..(len_lines(content) - 1) :
                      get_line(content', r + 1) = get_line(content, r)]_vars

----------------------------------------------------------------------------
(* find_empty_line_above, find_empty_line_below *)

\* the rows of c in lo..hi whose full text is exactly the terminator of lb
EmptyLines(c, lb, lo, hi) ==
    {r \in lo..hi :
        /\ r < len_lines(c)
        /\ get_line(c, r) = (IF lb = "Lf" THEN <<"\n">> ELSE <<"\r", "\n">>)}

\* C20: find_empty_line_below returns the smallest row above cursor.row
\* whose full text is exactly the terminator, and line count - 1 when there
\* is none; find_empty_line_above returns the largest such row below
\* cursor.row, and 0 when there is none or cursor.row is 0; both results
\* lie in [0, line count - 1].
C20_EmptyLineMotions ==
    /\ op = "find_empty_line_below" =>
           LET below == EmptyLines(content, line_break, cursor.row + 1,
                                   len_lines(content) - 1)
           IN  /\ ~panicked
               /\ ret = IF below = {} THEN <<len_lines(content) - 1>>
                        ELSE <<CHOOSE r \in below : \A k \in below : r <= k>>
               /\ ret[1] \in 0..(len_lines(content) - 1)
    /\ op = "find_empty_line_above" =>
           LET above == EmptyLines(content, line_break, 0, cursor.row - 1)
           IN  /\ ~panicked
               /\ ret = IF above = {} THEN <<0>>
                        ELSE <<CHOOSE r \in above : \A k \in above : r >= k>>
               /\ ret[1] \in 0..(len_lines(content) - 1)

----------------------------------------------------------------------------
(* Progress of the word motions *)

\* the offset of the position <<col, row>> a motion returned
OffsetOf(c, pos) == to_offset(c, pos[1], pos[2])

\* C21: from an offset p < len_chars find_next_word returns an offset
\* above p and at most len_chars, and from an offset p > 0 find_prev_word
\* returns an offset below p; so a caller that repeats find_next_word,
\* each result being its next cursor, reaches the content end, and one that
\* repeats find_prev_word reaches offset 0.
C21_WordMotionsProgress ==
    /\ [][/\ (op' = "find_next_word" /\ CursorOffset < Len(content)) =>
                 /\ ~panicked'
                 /\ OffsetOf(content, ret') > CursorOffset
                 /\ OffsetOf(content, ret') <= Len(content)
          /\ (op' = "find_prev_word" /\ CursorOffset > 0) =>
                 /\ ~panicked'
                 /\ OffsetOf(content, ret') < CursorOffset
                 /\ OffsetOf(content, ret') >= 0]_vars
    /\ (op = "find_next_word") ~> (CursorOffset = Len(content))
    /\ (op = "find_prev_word") ~> (CursorOffset = 0)

\* repeated find_next_word has gone over the empty line of a CRLF text and
\* has come to the content end
C21_Witness ==
    /\ op = "find_next_word"
    /\ ~panicked
    /\ content = <<"a", "\r", "\n", "\r", "\n", "a">>
    /\ ret = <<1, 2>>
    /\ cursor = [row |-> 2, col |-> 1]

====
